---- MODULE Spec2Model ----
(***************************************************************************)
(* Model of the sindit-senml resolver: resolve_records (src/src/lib.rs),    *)
(* resolve_value (src/src/lib.rs), convert_senml_time (src/src/time.rs)    *)
(* and validate_name (src/src/validate_name.rs).                           *)
(*                                                                         *)
(* resolve_records is a fold over the input records; one action resolves   *)
(* the next record (the body of the map closure) and one action is the     *)
(* end of collect().                                                       *)
(***************************************************************************)
EXTENDS Integers, Sequences, FiniteSets, TLC

(***************************************************************************)
(* Option<T>: None is the empty sequence, Some(x) the one-element sequence *)
(***************************************************************************)
None == <<>>

Some(x) == <<x>>

IsSome(o) == o # <<>>

IsNone(o) == o = <<>>

Unwrap(o) == o[1]

(***************************************************************************)
(* f64.  A value is a record [k, s, f]:                                    *)
(*   k = "fin": the number s + f / FracDen, s whole seconds (truncated     *)
(*              toward zero), f the fraction in units of 1/FracDen, with   *)
(*              the sign of the number; |s| stays below 2^31;              *)
(*   k = "big": a finite number of sign s whose magnitude lies in band f:  *)
(*              band 1  beyond the range of chrono's DateTime (about       *)
(*                      8.2e12 s) and within TimeDelta::seconds' range,    *)
(*              band 2  beyond i64::MAX / 1000 (TimeDelta::seconds' range) *)
(*                      and within i64,                                    *)
(*              band 3  beyond i64, below f64::MAX / 2,                    *)
(*              band 4  f64::MAX;                                          *)
(*              a big number has no fractional part;                       *)
(*   k = "inf": the infinity of sign s;   k = "nan": NaN.                  *)
(***************************************************************************)
FracDen == 4

Fin(s, f) == [k |-> "fin", s |-> s, f |-> f]

Big(sgn, band) == [k |-> "big", s |-> sgn, f |-> band]

Inf(sgn) == [k |-> "inf", s |-> sgn, f |-> 0]

NaN == [k |-> "nan", s |-> 0, f |-> 0]

Zero == Fin(0, 0)

\* f64::is_finite
is_finite(x) == x.k \in {"fin", "big"}

\* whole and fraction brought to one sign, |fraction| < 1
Normalise(s, f) ==
    LET s1 == IF f >= FracDen THEN s + 1 ELSE IF f <= -FracDen THEN s - 1 ELSE s
        f1 == IF f >= FracDen THEN f - FracDen ELSE IF f <= -FracDen THEN f + FracDen ELSE f
    IN  IF s1 > 0 /\ f1 < 0 THEN Fin(s1 - 1, f1 + FracDen)
        ELSE IF s1 < 0 /\ f1 > 0 THEN Fin(s1 + 1, f1 - FracDen)
        ELSE Fin(s1, f1)

\* f64 addition (the + of base_value + value, base_time + time, base_sum + sum)
FAdd(a, b) ==
    IF a.k = "nan" \/ b.k = "nan" THEN NaN
    ELSE IF a.k = "inf" /\ b.k = "inf" THEN (IF a.s = b.s THEN a ELSE NaN)
    ELSE IF a.k = "inf" THEN a
    ELSE IF b.k = "inf" THEN b
    ELSE IF a.k = "big" /\ b.k = "big" THEN
        IF a.s = b.s
        THEN IF a.f = 4 /\ b.f = 4 THEN Inf(a.s)   \* f64::MAX + f64::MAX overflows
             ELSE Big(a.s, IF a.f >= b.f THEN a.f ELSE b.f)
        ELSE IF a.f = b.f THEN Zero
             ELSE IF a.f > b.f THEN a ELSE b
    ELSE IF a.k = "big" THEN a
    ELSE IF b.k = "big" THEN b
    ELSE Normalise(a.s + b.s, a.f + b.f)

\* f64::fract() != 0.0
HasFract(x) == x.k = "fin" /\ x.f # 0

(***************************************************************************)
(* chrono::DateTime<Utc>: seconds since the Unix epoch and nanoseconds     *)
(***************************************************************************)
NANOS_PER_SEC == 1000000000

DateTime(secs, nanos) == [secs |-> secs, nanos |-> nanos]

\* DateTime + Duration::seconds(w) + Duration::nanoseconds(n), in range
DateTimeAdd(dt, w, n) ==
    LET total == dt.nanos + n
    IN  IF total < 0 THEN DateTime(dt.secs + w - 1, total + NANOS_PER_SEC)
        ELSE IF total >= NANOS_PER_SEC THEN DateTime(dt.secs + w + 1, total - NANOS_PER_SEC)
        ELSE DateTime(dt.secs + w, total)

\* 2**28
TIME_THRESHOLD == 268435456

\* seconds >= TIME_THRESHOLD
AtOrAboveThreshold(seconds) ==
    IF seconds.k = "fin" THEN seconds.s >= TIME_THRESHOLD ELSE seconds.s > 0

\* The outcome of a call: Some(datetime), None, or a panic
TimeSome(dt) == [kind |-> "Some", dt |-> dt]

TimeNone == [kind |-> "None", dt |-> DateTime(0, 0)]

TimePanic == [kind |-> "Panic", dt |-> DateTime(0, 0)]

\* (seconds.fract() * 1_000_000_000_f64).trunc() as i64
Nanoseconds(seconds) ==
    IF HasFract(seconds) THEN seconds.f * (NANOS_PER_SEC \div FracDen) ELSE 0

\* DateTime::<Utc>::from_timestamp(whole_seconds, nanoseconds as u32):
\* None when the timestamp is outside chrono's range
from_timestamp(seconds) ==
    IF seconds.k = "fin" THEN TimeSome(DateTime(seconds.s, Nanoseconds(seconds)))
    ELSE TimeNone

\* now + Duration::seconds(whole_seconds) + Duration::nanoseconds(nanoseconds):
\* Duration::seconds panics beyond i64::MAX / 1000 seconds (bands 2 and up,
\* the saturated cast of band 3 and 4 included), and DateTime + Duration
\* panics when the sum leaves chrono's range (band 1).
RelativeToNow(seconds, now_) ==
    IF seconds.k = "fin" THEN TimeSome(DateTimeAdd(now_, seconds.s, Nanoseconds(seconds)))
    ELSE TimePanic

\* variant: no is_finite test; NaN casts to 0 whole seconds and NaN >= 2^28
\* is false, an infinity casts to the nearest end of i64
convert_senml_time_NoFiniteCheck(seconds, now_) ==
    IF seconds.k = "nan" THEN TimeSome(now_)
    ELSE IF AtOrAboveThreshold(seconds) THEN from_timestamp(seconds)
    ELSE RelativeToNow(seconds, now_)

convert_senml_time(seconds, now_) ==
    IF ~is_finite(seconds) THEN TimeNone
    ELSE IF AtOrAboveThreshold(seconds) THEN from_timestamp(seconds)
    ELSE RelativeToNow(seconds, now_)

(***************************************************************************)
(* validate_name: the regex ^[A-Za-z0-9][A-Za-z0-9\-\:\.\/_]*$ run as its  *)
(* automaton over the characters of the name (a name is a sequence of      *)
(* one-character strings).                                                 *)
(***************************************************************************)
Upper == {"A","B","C","D","E","F","G","H","I","J","K","L","M",
          "N","O","P","Q","R","S","T","U","V","W","X","Y","Z"}

Lower == {"a","b","c","d","e","f","g","h","i","j","k","l","m",
          "n","o","p","q","r","s","t","u","v","w","x","y","z"}

Digit == {"0","1","2","3","4","5","6","7","8","9"}

\* [A-Za-z0-9]
FirstClass == Upper \cup Lower \cup Digit

\* [A-Za-z0-9\-\:\.\/_]
RestClass == FirstClass \cup {"-", ":", ".", "/", "_"}

\* state 0: at ^, state 1: inside the starred class, state 2: no match
\* variant: the first character is taken from the class of the others
RegexStep_AnyFirst(state, c) ==
    IF state \in {0, 1} THEN (IF c \in RestClass THEN 1 ELSE 2)
    ELSE 2

RegexStep(state, c) ==
    IF state = 0 THEN (IF c \in FirstClass THEN 1 ELSE 2)
    ELSE IF state = 1 THEN (IF c \in RestClass THEN 1 ELSE 2)
    ELSE 2

RECURSIVE RegexRun(_, _, _)
RegexRun(name, i, state) ==
    IF i > Len(name) THEN state
    ELSE RegexRun(name, i + 1, RegexStep(state, name[i]))

\* variant: the pattern's first class is optional, so the empty name matches
validate_name_AcceptsEmpty(name) == RegexRun(name, 1, 0) \in {0, 1}

validate_name(name) == RegexRun(name, 1, 0) = 1

(***************************************************************************)
(* base64::engine::general_purpose::URL_SAFE_NO_PAD.decode                 *)
(***************************************************************************)
URL_SAFE == <<"A","B","C","D","E","F","G","H","I","J","K","L","M","N","O","P",
              "Q","R","S","T","U","V","W","X","Y","Z","a","b","c","d","e","f",
              "g","h","i","j","k","l","m","n","o","p","q","r","s","t","u","v",
              "w","x","y","z","0","1","2","3","4","5","6","7","8","9","-","_">>

InAlphabet(c) == \E i \in 1..Len(URL_SAFE) : URL_SAFE[i] = c

\* the 6-bit value of a symbol
Sextet(c) == (CHOOSE i \in 1..Len(URL_SAFE) : URL_SAFE[i] = c) - 1

DecodeOk(bytes) == [ok |-> TRUE, bytes |-> bytes, detail |-> ""]

DecodeErr(detail) == [ok |-> FALSE, bytes |-> <<>>, detail |-> detail]

\* the bytes of the symbols from position i on; the symbols are all in the
\* alphabet and the length is not 1 mod 4
RECURSIVE DecodeFrom(_, _)
DecodeFrom(text, i) ==
    LET left == Len(text) - i + 1
    IN  IF left <= 0 THEN <<>>
        ELSE IF left >= 4 THEN
            LET n == Sextet(text[i]) * 262144 + Sextet(text[i + 1]) * 4096
                     + Sextet(text[i + 2]) * 64 + Sextet(text[i + 3])
            IN  <<n \div 65536, (n \div 256) % 256, n % 256>> \o DecodeFrom(text, i + 4)
        ELSE IF left = 3 THEN
            LET n == Sextet(text[i]) * 4096 + Sextet(text[i + 1]) * 64 + Sextet(text[i + 2])
            IN  <<n \div 1024, (n \div 4) % 256>>
        ELSE
            LET n == Sextet(text[i]) * 64 + Sextet(text[i + 1])
            IN  <<n \div 16>>

\* the bits of the last symbol that belong to no byte
TrailingBits(text) ==
    LET r == Len(text) % 4
    IN  IF r = 3 THEN Sextet(text[Len(text)]) % 4
        ELSE IF r = 2 THEN Sextet(text[Len(text)]) % 16
        ELSE 0

base64_decode(text) ==
    IF \E i \in 1..Len(text) : ~InAlphabet(text[i]) THEN
        (IF \E i \in 1..Len(text) : text[i] # "=" /\ ~InAlphabet(text[i])
         THEN DecodeErr("InvalidByte") ELSE DecodeErr("InvalidPadding"))
    ELSE IF Len(text) % 4 = 1 THEN DecodeErr("InvalidLength")
    ELSE IF TrailingBits(text) # 0 THEN DecodeErr("InvalidLastSymbol")
    ELSE DecodeOk(DecodeFrom(text, 1))

(***************************************************************************)
(* SenMLValueField                                                         *)
(***************************************************************************)
FloatingPoint(x) ==
    [kind |-> "FloatingPoint", float |-> x, string |-> "", bool |-> FALSE, data |-> <<>>]

StringValue(x) ==
    [kind |-> "StringValue", float |-> Zero, string |-> x, bool |-> FALSE, data |-> <<>>]

BooleanValue(x) ==
    [kind |-> "BooleanValue", float |-> Zero, string |-> "", bool |-> x, data |-> <<>>]

DataValue(x) ==
    [kind |-> "DataValue", float |-> Zero, string |-> "", bool |-> FALSE, data |-> x]

(***************************************************************************)
(* SinditSenMLError.  index is the usize carried by the variant, NoIndex   *)
(* for the variants that carry none; detail is the base64::DecodeError     *)
(* carried by InvalidBase64Value.                                          *)
(***************************************************************************)
NoIndex == -1

MissingName(i) == [tag |-> "MissingName", index |-> i, detail |-> ""]

InvalidNameInRecord(i) == [tag |-> "InvalidNameInRecord", index |-> i, detail |-> ""]

InvalidTimeInRecord(i) == [tag |-> "InvalidTimeInRecord", index |-> i, detail |-> ""]

OnlyOneValuePerRecord(i) == [tag |-> "OnlyOneValuePerRecord", index |-> i, detail |-> ""]

InvalidBase64Value(e) == [tag |-> "InvalidBase64Value", index |-> NoIndex, detail |-> e]

DifferentBaseVersion == [tag |-> "DifferentBaseVersion", index |-> NoIndex, detail |-> ""]

InvalidVersionNumber == [tag |-> "InvalidVersionNumber", index |-> NoIndex, detail |-> ""]

NoError == [tag |-> "", index |-> NoIndex, detail |-> ""]

(***************************************************************************)
(* resolve_value: Result<Option<SenMLValueField>, SinditSenMLError>        *)
(***************************************************************************)
ValueOk(v) == [ok |-> TRUE, value |-> v, err |-> NoError]

ValueErr(e) == [ok |-> FALSE, value |-> None, err |-> e]

\* variant: the base value, when set, takes the place of a string value
resolve_value_BaseOverString(record, base_value, index) ==
    IF IsSome(record.value) THEN
        IF IsSome(record.string_value) \/ IsSome(record.bool_value)
           \/ IsSome(record.data_value)
        THEN ValueErr(OnlyOneValuePerRecord(index))
        ELSE IF IsSome(base_value)
             THEN ValueOk(Some(FloatingPoint(FAdd(Unwrap(base_value), Unwrap(record.value)))))
             ELSE ValueOk(Some(FloatingPoint(Unwrap(record.value))))
    ELSE IF IsSome(record.string_value) THEN
        IF IsSome(record.bool_value) \/ IsSome(record.data_value)
        THEN ValueErr(OnlyOneValuePerRecord(index))
        ELSE IF IsSome(base_value)
             THEN ValueOk(Some(FloatingPoint(Unwrap(base_value))))
             ELSE ValueOk(Some(StringValue(Unwrap(record.string_value))))
    ELSE IF IsSome(record.bool_value) THEN
        IF IsSome(record.data_value)
        THEN ValueErr(OnlyOneValuePerRecord(index))
        ELSE ValueOk(Some(BooleanValue(Unwrap(record.bool_value))))
    ELSE IF IsSome(record.data_value) THEN
        LET decoded == base64_decode(Unwrap(record.data_value))
        IN  IF decoded.ok THEN ValueOk(Some(DataValue(decoded.bytes)))
            ELSE ValueErr(InvalidBase64Value(decoded.detail))
    ELSE IF IsSome(base_value) THEN ValueOk(Some(FloatingPoint(Unwrap(base_value))))
    ELSE ValueOk(None)

\* variant: a numeric value is taken as it is, the base value left out
resolve_value_IgnoresBase(record, base_value, index) ==
    IF IsSome(record.value) THEN
        IF IsSome(record.string_value) \/ IsSome(record.bool_value)
           \/ IsSome(record.data_value)
        THEN ValueErr(OnlyOneValuePerRecord(index))
        ELSE ValueOk(Some(FloatingPoint(Unwrap(record.value))))
    ELSE IF IsSome(record.string_value) THEN
        IF IsSome(record.bool_value) \/ IsSome(record.data_value)
        THEN ValueErr(OnlyOneValuePerRecord(index))
        ELSE ValueOk(Some(StringValue(Unwrap(record.string_value))))
    ELSE IF IsSome(record.bool_value) THEN
        IF IsSome(record.data_value)
        THEN ValueErr(OnlyOneValuePerRecord(index))
        ELSE ValueOk(Some(BooleanValue(Unwrap(record.bool_value))))
    ELSE IF IsSome(record.data_value) THEN
        LET decoded == base64_decode(Unwrap(record.data_value))
        IN  IF decoded.ok THEN ValueOk(Some(DataValue(decoded.bytes)))
            ELSE ValueErr(InvalidBase64Value(decoded.detail))
    ELSE IF IsSome(base_value) THEN ValueOk(Some(FloatingPoint(Unwrap(base_value))))
    ELSE ValueOk(None)

\* variant: a boolean next to a binary value is let through
resolve_value_BoolWithData(record, base_value, index) ==
    IF IsSome(record.value) THEN
        IF IsSome(record.string_value) \/ IsSome(record.bool_value)
           \/ IsSome(record.data_value)
        THEN ValueErr(OnlyOneValuePerRecord(index))
        ELSE IF IsSome(base_value)
             THEN ValueOk(Some(FloatingPoint(FAdd(Unwrap(base_value), Unwrap(record.value)))))
             ELSE ValueOk(Some(FloatingPoint(Unwrap(record.value))))
    ELSE IF IsSome(record.string_value) THEN
        IF IsSome(record.bool_value) \/ IsSome(record.data_value)
        THEN ValueErr(OnlyOneValuePerRecord(index))
        ELSE ValueOk(Some(StringValue(Unwrap(record.string_value))))
    ELSE IF IsSome(record.bool_value) THEN
        ValueOk(Some(BooleanValue(Unwrap(record.bool_value))))
    ELSE IF IsSome(record.data_value) THEN
        LET decoded == base64_decode(Unwrap(record.data_value))
        IN  IF decoded.ok THEN ValueOk(Some(DataValue(decoded.bytes)))
            ELSE ValueErr(InvalidBase64Value(decoded.detail))
    ELSE IF IsSome(base_value) THEN ValueOk(Some(FloatingPoint(Unwrap(base_value))))
    ELSE ValueOk(None)

resolve_value(record, base_value, index) ==
    IF IsSome(record.value) THEN
        IF IsSome(record.string_value) \/ IsSome(record.bool_value)
           \/ IsSome(record.data_value)
        THEN ValueErr(OnlyOneValuePerRecord(index))
        ELSE IF IsSome(base_value)
             THEN ValueOk(Some(FloatingPoint(FAdd(Unwrap(base_value), Unwrap(record.value)))))
             ELSE ValueOk(Some(FloatingPoint(Unwrap(record.value))))
    ELSE IF IsSome(record.string_value) THEN
        IF IsSome(record.bool_value) \/ IsSome(record.data_value)
        THEN ValueErr(OnlyOneValuePerRecord(index))
        ELSE ValueOk(Some(StringValue(Unwrap(record.string_value))))
    ELSE IF IsSome(record.bool_value) THEN
        IF IsSome(record.data_value)
        THEN ValueErr(OnlyOneValuePerRecord(index))
        ELSE ValueOk(Some(BooleanValue(Unwrap(record.bool_value))))
    ELSE IF IsSome(record.data_value) THEN
        LET decoded == base64_decode(Unwrap(record.data_value))
        IN  IF decoded.ok THEN ValueOk(Some(DataValue(decoded.bytes)))
            ELSE ValueErr(InvalidBase64Value(decoded.detail))
    ELSE IF IsSome(base_value) THEN ValueOk(Some(FloatingPoint(Unwrap(base_value))))
    ELSE ValueOk(None)

(***************************************************************************)
(* SenMLRecord, the decoded input record                                   *)
(***************************************************************************)
EMPTY_RECORD ==
    [base_name |-> None, base_time |-> None, base_unit |-> None,
     base_value |-> None, base_sum |-> None, base_version |-> None,
     name |-> None, unit |-> None, value |-> None, string_value |-> None,
     bool_value |-> None, data_value |-> None, sum |-> None, time |-> None,
     update_time |-> None, extra_fields |-> None]

\* SenMLResolvedRecord
ResolvedRecord(name, unit, value, sum, time, update_time, base_version, extra_fields) ==
    [name |-> name, unit |-> unit, value |-> value, sum |-> sum, time |-> time,
     update_time |-> update_time, base_version |-> base_version,
     extra_fields |-> extra_fields]

NoRecord ==
    ResolvedRecord(<<>>, None, None, None, DateTime(0, 0), None, None, None)

(***************************************************************************)
(* The body of the closure of resolve_records, piece by piece.  The        *)
(* context is the record of the six `let mut` locals.                      *)
(***************************************************************************)
\* variant: the slot follows the record, also when the record has no such field
SetBase_FollowsRecord(record_field, current) == record_field

\* if let Some(x) = record.base_f { base_f = Some(x) }
SetBase(record_field, current) ==
    IF IsSome(record_field) THEN record_field ELSE current

ApplyBaseFields(ctx, record) ==
    [ctx EXCEPT !.base_name = SetBase(record.base_name, ctx.base_name),
                !.base_time = SetBase(record.base_time, ctx.base_time),
                !.base_unit = SetBase(record.base_unit, ctx.base_unit),
                !.base_value = SetBase(record.base_value, ctx.base_value),
                !.base_sum = SetBase(record.base_sum, ctx.base_sum)]

\* We default to 10 if no base version is present.
DEFAULT_VERSION == 10

\* variant: no default is adopted when the record names no version
ReconcileVersion_NoDefault(record_base_version, ctx_base_version) ==
    IF IsSome(record_base_version) THEN
        IF IsSome(ctx_base_version) THEN
            IF Unwrap(ctx_base_version) # Unwrap(record_base_version)
            THEN [err |-> DifferentBaseVersion, base_version |-> ctx_base_version]
            ELSE [err |-> NoError, base_version |-> ctx_base_version]
        ELSE
            IF Unwrap(record_base_version) = 0
            THEN [err |-> InvalidVersionNumber, base_version |-> ctx_base_version]
            ELSE [err |-> NoError, base_version |-> record_base_version]
    ELSE [err |-> NoError, base_version |-> ctx_base_version]

\* variant: zero is adopted like any other version
ReconcileVersion_ZeroAdopted(record_base_version, ctx_base_version) ==
    IF IsSome(record_base_version) THEN
        IF IsSome(ctx_base_version) THEN
            IF Unwrap(ctx_base_version) # Unwrap(record_base_version)
            THEN [err |-> DifferentBaseVersion, base_version |-> ctx_base_version]
            ELSE [err |-> NoError, base_version |-> ctx_base_version]
        ELSE [err |-> NoError, base_version |-> record_base_version]
    ELSE
        IF IsNone(ctx_base_version)
        THEN [err |-> NoError, base_version |-> Some(DEFAULT_VERSION)]
        ELSE [err |-> NoError, base_version |-> ctx_base_version]

\* match record.base_version { ... }: the error, if any, and the context's version
ReconcileVersion(record_base_version, ctx_base_version) ==
    IF IsSome(record_base_version) THEN
        IF IsSome(ctx_base_version) THEN
            IF Unwrap(ctx_base_version) # Unwrap(record_base_version)
            THEN [err |-> DifferentBaseVersion, base_version |-> ctx_base_version]
            ELSE [err |-> NoError, base_version |-> ctx_base_version]
        ELSE
            IF Unwrap(record_base_version) = 0
            THEN [err |-> InvalidVersionNumber, base_version |-> ctx_base_version]
            ELSE [err |-> NoError, base_version |-> record_base_version]
    ELSE
        IF IsNone(ctx_base_version)
        THEN [err |-> NoError, base_version |-> Some(DEFAULT_VERSION)]
        ELSE [err |-> NoError, base_version |-> ctx_base_version]

\* variant: the own name comes first
ResolveName_NameFirst(record_name, ctx_base_name, index) ==
    IF IsSome(record_name) THEN
        IF IsSome(ctx_base_name)
        THEN [err |-> NoError, name |-> Unwrap(record_name) \o Unwrap(ctx_base_name)]
        ELSE [err |-> NoError, name |-> Unwrap(record_name)]
    ELSE
        IF IsSome(ctx_base_name)
        THEN [err |-> NoError, name |-> Unwrap(ctx_base_name)]
        ELSE [err |-> MissingName(index), name |-> <<>>]

\* variant: the error counts records from one
ResolveName_OneBased(record_name, ctx_base_name, index) ==
    IF IsSome(record_name) THEN
        IF IsSome(ctx_base_name)
        THEN [err |-> NoError, name |-> Unwrap(ctx_base_name) \o Unwrap(record_name)]
        ELSE [err |-> NoError, name |-> Unwrap(record_name)]
    ELSE
        IF IsSome(ctx_base_name)
        THEN [err |-> NoError, name |-> Unwrap(ctx_base_name)]
        ELSE [err |-> MissingName(index + 1), name |-> <<>>]

\* let name = match record.name { ... }
ResolveName(record_name, ctx_base_name, index) ==
    IF IsSome(record_name) THEN
        IF IsSome(ctx_base_name)
        THEN [err |-> NoError, name |-> Unwrap(ctx_base_name) \o Unwrap(record_name)]
        ELSE [err |-> NoError, name |-> Unwrap(record_name)]
    ELSE
        IF IsSome(ctx_base_name)
        THEN [err |-> NoError, name |-> Unwrap(ctx_base_name)]
        ELSE [err |-> MissingName(index), name |-> <<>>]

\* variant: the base unit wins over the record's own unit
ResolveUnit_BaseFirst(record_unit, ctx_base_unit) ==
    IF IsSome(ctx_base_unit) THEN ctx_base_unit ELSE record_unit

\* let unit = match record.unit { ... }
ResolveUnit(record_unit, ctx_base_unit) ==
    IF IsSome(record_unit) THEN record_unit ELSE ctx_base_unit

\* variant: an own time stands alone, the base time left out
ResolveTime_OwnAlone(record_time, ctx_base_time) ==
    IF IsSome(record_time) THEN Unwrap(record_time)
    ELSE IF IsSome(ctx_base_time) THEN Unwrap(ctx_base_time) ELSE Zero

\* let time = match record.time { ... }
ResolveTime(record_time, ctx_base_time) ==
    IF IsSome(record_time) THEN
        IF IsSome(ctx_base_time)
        THEN FAdd(Unwrap(ctx_base_time), Unwrap(record_time))
        ELSE Unwrap(record_time)
    ELSE
        IF IsSome(ctx_base_time) THEN Unwrap(ctx_base_time) ELSE Zero

\* variant: an own sum replaces the base sum
ResolveSum_OwnReplaces(record_sum, ctx_base_sum) ==
    IF IsSome(record_sum) THEN record_sum ELSE ctx_base_sum

\* let sum = match record.sum { ... }
ResolveSum(record_sum, ctx_base_sum) ==
    IF IsSome(record_sum) THEN
        IF IsSome(ctx_base_sum)
        THEN Some(FAdd(Unwrap(ctx_base_sum), Unwrap(record_sum)))
        ELSE record_sum
    ELSE ctx_base_sum

\* variant: the value defaults whenever it is missing, sum or no sum
DefaultValue_IgnoresSum(value, sum) ==
    IF IsNone(value) THEN Some(FloatingPoint(Zero)) ELSE value

\* if value.is_none() && sum.is_none() { value = Some(FloatingPoint(0.0)) }
DefaultValue(value, sum) ==
    IF IsNone(value) /\ IsNone(sum) THEN Some(FloatingPoint(Zero)) ELSE value

\* variant: let record_base_version = base_version.unwrap_or(10)
EmittedVersion_Unwrapped(ctx_base_version) ==
    IF IsSome(ctx_base_version) THEN ctx_base_version ELSE Some(DEFAULT_VERSION)

\* let record_base_version = match base_version { ... }
EmittedVersion(ctx_base_version) ==
    IF IsSome(ctx_base_version)
    THEN (IF Unwrap(ctx_base_version) = DEFAULT_VERSION THEN None ELSE ctx_base_version)
    ELSE None

\* variant: the record's map is cloned as it is, empty or not
ResolveExtraFields_KeepsEmpty(extra_fields) == extra_fields

\* skip extra_fields if the record has empty hashmap or None
ResolveExtraFields(extra_fields) ==
    IF IsSome(extra_fields)
    THEN (IF Unwrap(extra_fields) = {} THEN None ELSE extra_fields)
    ELSE None

ClosureOk(ctx, record) == [kind |-> "Ok", ctx |-> ctx, record |-> record, err |-> NoError]

ClosureErr(ctx, err) == [kind |-> "Err", ctx |-> ctx, record |-> NoRecord, err |-> err]

ClosurePanic(ctx) == [kind |-> "Panic", ctx |-> ctx, record |-> NoRecord, err |-> NoError]

\* variant: the value is resolved before the name is looked at
MapClosure_ValueBeforeName(ctx, record, index, now_) ==
    LET c1 == ApplyBaseFields(ctx, record)
        ver == ReconcileVersion(record.base_version, c1.base_version)
        c2 == [c1 EXCEPT !.base_version = ver.base_version]
        nm == ResolveName(record.name, c2.base_name, index)
        unit == ResolveUnit(record.unit, c2.base_unit)
        val == resolve_value(record, c2.base_value, index)
        time == ResolveTime(record.time, c2.base_time)
        datetime == convert_senml_time(time, now_)
        sum == ResolveSum(record.sum, c2.base_sum)
    IN  IF ver.err # NoError THEN ClosureErr(c2, ver.err)
        ELSE IF ~val.ok THEN ClosureErr(c2, val.err)
        ELSE IF nm.err # NoError THEN ClosureErr(c2, nm.err)
        ELSE IF ~validate_name(nm.name) THEN ClosureErr(c2, InvalidNameInRecord(index))
        ELSE IF datetime.kind = "Panic" THEN ClosurePanic(c2)
        ELSE IF datetime.kind = "None" THEN ClosureErr(c2, InvalidTimeInRecord(index))
        ELSE ClosureOk(c2,
                ResolvedRecord(nm.name, unit, DefaultValue(val.value, sum), sum,
                               datetime.dt, record.update_time,
                               EmittedVersion(c2.base_version),
                               ResolveExtraFields(record.extra_fields)))

\* |(index, record)| { ... }: the context it leaves and what it returns
MapClosure(ctx, record, index, now_) ==
    LET c1 == ApplyBaseFields(ctx, record)
        ver == ReconcileVersion(record.base_version, c1.base_version)
        c2 == [c1 EXCEPT !.base_version = ver.base_version]
        nm == ResolveName(record.name, c2.base_name, index)
        unit == ResolveUnit(record.unit, c2.base_unit)
        val == resolve_value(record, c2.base_value, index)
        time == ResolveTime(record.time, c2.base_time)
        datetime == convert_senml_time(time, now_)
        sum == ResolveSum(record.sum, c2.base_sum)
    IN  IF ver.err # NoError THEN ClosureErr(c2, ver.err)
        ELSE IF nm.err # NoError THEN ClosureErr(c2, nm.err)
        ELSE IF ~validate_name(nm.name) THEN ClosureErr(c2, InvalidNameInRecord(index))
        ELSE IF ~val.ok THEN ClosureErr(c2, val.err)
        ELSE IF datetime.kind = "Panic" THEN ClosurePanic(c2)
        ELSE IF datetime.kind = "None" THEN ClosureErr(c2, InvalidTimeInRecord(index))
        ELSE ClosureOk(c2,
                ResolvedRecord(nm.name, unit, DefaultValue(val.value, sum), sum,
                               datetime.dt, record.update_time,
                               EmittedVersion(c2.base_version),
                               ResolveExtraFields(record.extra_fields)))

(***************************************************************************)
(* State of one call of resolve_records                                    *)
(***************************************************************************)
VARIABLES
    input_records,   \* the decoded records
    now,             \* the reference time
    index,           \* number of records taken from the iterator
    base_name, base_time, base_unit, base_value, base_sum, base_version,
    resolved,        \* the records collected so far
    result,          \* what the call has returned, if it has
    serialised,      \* the JSON text written from the returned records, if any
    reparsed,        \* what parse_json made of the JSON text written, if called
    PATTERN,         \* the process-wide OnceCell<Regex> of validate_name
    peer             \* a second call of resolve_records, on another thread

vars == <<input_records, now, index, base_name, base_time, base_unit,
          base_value, base_sum, base_version, resolved, result,
          serialised, reparsed, PATTERN, peer>>

Context ==
    [base_name |-> base_name, base_time |-> base_time, base_unit |-> base_unit,
     base_value |-> base_value, base_sum |-> base_sum, base_version |-> base_version]

Running == [kind |-> "Running", records |-> <<>>, err |-> NoError]

ReturnOk(records) == [kind |-> "Ok", records |-> records, err |-> NoError]

ReturnErr(err) == [kind |-> "Err", records |-> <<>>, err |-> err]

Panicked == [kind |-> "Panic", records |-> <<>>, err |-> NoError]

\* variant: a failed record is skipped and the iteration goes on
Collected_SkipsErr(out) ==
    IF out.kind = "Panic" THEN Panicked ELSE Running

\* What collect() makes of the closure's return value
Collected(out) ==
    IF out.kind = "Ok" THEN Running
    ELSE IF out.kind = "Err" THEN ReturnErr(out.err)
    ELSE Panicked

\* the call is not made
NotCalled == [kind |-> "NotCalled", records |-> <<>>, err |-> NoError]

EmptyContext ==
    [base_name |-> None, base_time |-> None, base_unit |-> None,
     base_value |-> None, base_sum |-> None, base_version |-> None]

\* one call run alone from the context ctx and record i on: what it returns
RECURSIVE Alone(_, _, _, _, _)
Alone(records, now_, i, ctx, acc) ==
    IF i > Len(records) THEN ReturnOk(acc)
    ELSE LET out == MapClosure(ctx, records[i], i - 1, now_)
         IN  IF out.kind = "Ok"
             THEN Alone(records, now_, i + 1, out.ctx, Append(acc, out.record))
             ELSE Collected(out)

\* resolve_records(records, now) as a function of its arguments
resolve_records(records, now_) == Alone(records, now_, 1, EmptyContext, <<>>)

\* the closure gets as far as validate_name(&name), whose
\* PATTERN.get_or_init compiles the pattern on its first call in the process
CallsValidateName(ctx, record) ==
    LET c1 == ApplyBaseFields(ctx, record)
        ver == ReconcileVersion(record.base_version, c1.base_version)
        nm == ResolveName(record.name, c1.base_name, 0)
    IN  ver.err = NoError /\ nm.err = NoError

get_or_init(cell, called) == IF called THEN "Compiled" ELSE cell

\* variant: each resolved record is put in front of those collected before it
ResolveNext_Prepends ==
    /\ result.kind = "Running"
    /\ index < Len(input_records)
    /\ LET out == MapClosure(Context, input_records[index + 1], index, now)
       IN  /\ base_name' = out.ctx.base_name
           /\ base_time' = out.ctx.base_time
           /\ base_unit' = out.ctx.base_unit
           /\ base_value' = out.ctx.base_value
           /\ base_sum' = out.ctx.base_sum
           /\ base_version' = out.ctx.base_version
           /\ resolved' = IF out.kind = "Ok" THEN <<out.record>> \o resolved ELSE <<>>
           /\ result' = Collected(out)
    /\ index' = index + 1
    /\ PATTERN' = get_or_init(PATTERN, CallsValidateName(Context, input_records[index + 1]))
    /\ UNCHANGED <<input_records, now, serialised, reparsed, peer>>

\* variant: the closure also takes the base fields of the last record of the
\* input into the context before it resolves the record at hand
ResolveNext_LooksAhead ==
    /\ result.kind = "Running"
    /\ index < Len(input_records)
    /\ LET ahead == ApplyBaseFields(Context, input_records[Len(input_records)])
           out == MapClosure(ahead, input_records[index + 1], index, now)
       IN  /\ base_name' = out.ctx.base_name
           /\ base_time' = out.ctx.base_time
           /\ base_unit' = out.ctx.base_unit
           /\ base_value' = out.ctx.base_value
           /\ base_sum' = out.ctx.base_sum
           /\ base_version' = out.ctx.base_version
           /\ resolved' = IF out.kind = "Ok" THEN Append(resolved, out.record) ELSE <<>>
           /\ result' = Collected(out)
    /\ index' = index + 1
    /\ PATTERN' = get_or_init(PATTERN, CallsValidateName(Context, input_records[index + 1]))
    /\ UNCHANGED <<input_records, now, serialised, reparsed, peer>>

\* The iterator yields the next record and the closure resolves it
ResolveNext ==
    /\ result.kind = "Running"
    /\ index < Len(input_records)
    /\ LET out == MapClosure(Context, input_records[index + 1], index, now)
       IN  /\ base_name' = out.ctx.base_name
           /\ base_time' = out.ctx.base_time
           /\ base_unit' = out.ctx.base_unit
           /\ base_value' = out.ctx.base_value
           /\ base_sum' = out.ctx.base_sum
           /\ base_version' = out.ctx.base_version
           /\ resolved' = IF out.kind = "Ok" THEN Append(resolved, out.record) ELSE <<>>
           /\ result' = Collected(out)
    /\ index' = index + 1
    /\ PATTERN' = get_or_init(PATTERN, CallsValidateName(Context, input_records[index + 1]))
    /\ UNCHANGED <<input_records, now, serialised, reparsed, peer>>

\* The iterator is exhausted: collect() returns Ok(the records)
Collect ==
    /\ result.kind = "Running"
    /\ index = Len(input_records)
    /\ result' = ReturnOk(resolved)
    /\ UNCHANGED <<input_records, now, index, base_name, base_time, base_unit,
                   base_value, base_sum, base_version, resolved,
                   serialised, reparsed, PATTERN, peer>>

Next == ResolveNext \/ Collect

(***************************************************************************)
(* serde_json::to_string(&records): the derived Serialize of               *)
(* SenMLResolvedRecord with the hand-written serializers of its value and  *)
(* time.  A JSON number is kept as the literal written: an integer         *)
(* literal, a float literal, or null (what serde_json writes for a float   *)
(* that is not finite).                                                    *)
(***************************************************************************)
IntLiteral(x) == [form |-> "int", num |-> x]

FloatLiteral(x) == [form |-> "float", num |-> x]

Null == [form |-> "null", num |-> Zero]

\* value.fract() == 0.0 (the fract of an infinity or of NaN is NaN)
FractIsZero(x) == x.k = "big" \/ (x.k = "fin" /\ x.f = 0)

\* *value as i64: the cast saturates at i64::MIN and i64::MAX, which lie in
\* band 2
AsI64(x) ==
    IF x.k = "fin" THEN Fin(x.s, 0)
    ELSE IF x.k = "big" THEN (IF x.f >= 3 THEN Big(x.s, 2) ELSE x)
    ELSE IF x.k = "inf" THEN Big(x.s, 2)
    ELSE Zero

serialize_i64(x) == IntLiteral(x)

serialize_f64(x) == IF is_finite(x) THEN FloatLiteral(x) ELSE Null

\* URL_SAFE_NO_PAD.encode
RECURSIVE EncodeFrom(_, _)
EncodeFrom(bytes, i) ==
    LET left == Len(bytes) - i + 1
    IN  IF left <= 0 THEN <<>>
        ELSE IF left >= 3 THEN
            LET n == bytes[i] * 65536 + bytes[i + 1] * 256 + bytes[i + 2]
            IN  <<URL_SAFE[(n \div 262144) + 1], URL_SAFE[((n \div 4096) % 64) + 1],
                  URL_SAFE[((n \div 64) % 64) + 1], URL_SAFE[(n % 64) + 1]>>
                \o EncodeFrom(bytes, i + 3)
        ELSE IF left = 2 THEN
            LET n == (bytes[i] * 256 + bytes[i + 1]) * 4
            IN  <<URL_SAFE[(n \div 4096) + 1], URL_SAFE[((n \div 64) % 64) + 1],
                  URL_SAFE[(n % 64) + 1]>>
        ELSE
            LET n == bytes[i] * 16
            IN  <<URL_SAFE[(n \div 64) + 1], URL_SAFE[(n % 64) + 1]>>

\* variant: the padded engine, which fills the text up to a multiple of four
base64_encode_Padded(bytes) ==
    LET text == EncodeFrom(bytes, 1)
    IN  IF Len(text) % 4 = 2 THEN text \o <<"=", "=">>
        ELSE IF Len(text) % 4 = 3 THEN text \o <<"=">>
        ELSE text

base64_encode(bytes) == EncodeFrom(bytes, 1)

\* the one member written for the value: its key and what follows it
WireValue(key, lit, string, bool, text) ==
    [key |-> key, lit |-> lit, string |-> string, bool |-> bool, text |-> text]

\* impl Serialize for SenMLValueField
SerializeValue(value) ==
    IF value.kind = "BooleanValue" THEN WireValue("vb", Null, "", value.bool, <<>>)
    ELSE IF value.kind = "StringValue" THEN WireValue("vs", Null, value.string, FALSE, <<>>)
    ELSE IF value.kind = "FloatingPoint" THEN
        IF FractIsZero(value.float)
        THEN WireValue("v", serialize_i64(AsI64(value.float)), "", FALSE, <<>>)
        ELSE WireValue("v", serialize_f64(value.float), "", FALSE, <<>>)
    ELSE WireValue("vd", Null, "", FALSE, base64_encode(value.data))

\* (timestamp, precise_timestamp)
datetime_to_timestamp(datetime) ==
    [timestamp |-> datetime.secs,
     precise |-> IF datetime.nanos > 0
                 THEN Some(FAdd(Fin(datetime.secs, 0),
                                Fin(0, datetime.nanos \div (NANOS_PER_SEC \div FracDen))))
                 ELSE None]

serialize_datetime(date) ==
    LET ts == datetime_to_timestamp(date)
    IN  IF IsSome(ts.precise) THEN serialize_f64(Unwrap(ts.precise))
        ELSE serialize_i64(Fin(ts.timestamp, 0))

\* an optional member: left out when None, else written
SerializeOption(o) == IF IsSome(o) THEN Some(serialize_f64(Unwrap(o))) ELSE None

\* the JSON object written for one resolved record
SerializeRecord(record) ==
    [n |-> record.name,
     u |-> record.unit,
     value |-> IF IsSome(record.value) THEN Some(SerializeValue(Unwrap(record.value)))
               ELSE None,
     s |-> SerializeOption(record.sum),
     t |-> serialize_datetime(record.time),
     ut |-> SerializeOption(record.update_time),
     bver |-> record.base_version,
     extra |-> record.extra_fields]

\* The caller writes the returned records as JSON
Serialise ==
    /\ result.kind = "Ok"
    /\ serialised = None
    /\ serialised' = Some([i \in 1..Len(result.records) |-> SerializeRecord(result.records[i])])
    /\ UNCHANGED <<input_records, now, index, base_name, base_time, base_unit,
                   base_value, base_sum, base_version, resolved, result,
                   reparsed, PATTERN, peer>>

(***************************************************************************)
(* parse_json(&text, Some(now)) on the text written: serde_json reads each *)
(* object into a SenMLRecord, then resolve_records runs on the records.    *)
(***************************************************************************)
\* Option<f64> read from a JSON number: an integer literal is read as the
\* integer and converted, null is read as None
deserialize_f64(lit) == IF lit.form = "null" THEN None ELSE Some(lit.num)

\* the SenMLRecord read from one object
DeserializeRecord(wire) ==
    LET value == wire.value
        key == IF IsSome(value) THEN Unwrap(value).key ELSE ""
    IN  [EMPTY_RECORD EXCEPT
            !.base_version = wire.bver,
            !.name = Some(wire.n),
            !.unit = wire.u,
            !.value = IF key = "v" THEN deserialize_f64(Unwrap(value).lit) ELSE None,
            !.string_value = IF key = "vs" THEN Some(Unwrap(value).string) ELSE None,
            !.bool_value = IF key = "vb" THEN Some(Unwrap(value).bool) ELSE None,
            !.data_value = IF key = "vd" THEN Some(Unwrap(value).text) ELSE None,
            !.sum = IF IsSome(wire.s) THEN deserialize_f64(Unwrap(wire.s)) ELSE None,
            !.time = deserialize_f64(wire.t),
            !.update_time = IF IsSome(wire.ut) THEN deserialize_f64(Unwrap(wire.ut)) ELSE None,
            !.extra_fields = wire.extra]

parse_json(text, now_) ==
    resolve_records([i \in 1..Len(text) |-> DeserializeRecord(text[i])], now_)

\* parse_json has not been called on the text
NotParsed == [now |-> DateTime(0, 0), result |-> NotCalled]

\* the reference times of the second resolution
LaterNows == {DateTime(1700000000, 0), DateTime(1800000000, 0)}

\* The caller reads the text back with a reference time of its choice
ParseAgain ==
    /\ IsSome(serialised)
    /\ reparsed = NotParsed
    /\ \E later \in LaterNows :
          reparsed' = [now |-> later, result |-> parse_json(Unwrap(serialised), later)]
    /\ PATTERN' = get_or_init(PATTERN, Len(Unwrap(serialised)) > 0)
    /\ UNCHANGED <<input_records, now, index, base_name, base_time, base_unit,
                   base_value, base_sum, base_version, resolved, result,
                   serialised, peer>>

NextSerial == ResolveNext \/ Collect \/ Serialise \/ ParseAgain

(***************************************************************************)
(* A second call of resolve_records made on another thread.  Its locals    *)
(* (the iterator position, the base context, the records collected, the    *)
(* return value) are its own; the two calls share PATTERN only.            *)
(***************************************************************************)
\* variant: the base context is one static shared by the calls
PeerContext_Shared == Context

\* the base context the second call's closure captures
PeerContext == peer.ctx

PeerResolveNext ==
    /\ peer.result.kind = "Running"
    /\ peer.index < Len(peer.input_records)
    /\ LET record == peer.input_records[peer.index + 1]
           out == MapClosure(PeerContext, record, peer.index, peer.now)
       IN  /\ peer' = [peer EXCEPT
                        !.ctx = out.ctx,
                        !.resolved = IF out.kind = "Ok" THEN Append(@, out.record) ELSE <<>>,
                        !.result = Collected(out),
                        !.index = @ + 1]
           /\ PATTERN' = get_or_init(PATTERN, CallsValidateName(PeerContext, record))
    /\ UNCHANGED <<input_records, now, index, base_name, base_time, base_unit,
                   base_value, base_sum, base_version, resolved, result,
                   serialised, reparsed>>

PeerCollect ==
    /\ peer.result.kind = "Running"
    /\ peer.index = Len(peer.input_records)
    /\ peer' = [peer EXCEPT !.result = ReturnOk(peer.resolved)]
    /\ UNCHANGED <<input_records, now, index, base_name, base_time, base_unit,
                   base_value, base_sum, base_version, resolved, result,
                   serialised, reparsed, PATTERN>>

NextConcurrent == ResolveNext \/ Collect \/ PeerResolveNext \/ PeerCollect

(***************************************************************************)
(* Inputs                                                                  *)
(***************************************************************************)
MaxLen == 3

SeqsUpTo(S, n) == UNION {[1..k -> S] : k \in 0..n}

\* the locals of a call at its entry
Call(records, now_) ==
    [input_records |-> records, now |-> now_, index |-> 0, ctx |-> EmptyContext,
     resolved |-> <<>>, result |-> Running]

NoPeer == [Call(<<>>, DateTime(0, 0)) EXCEPT !.result = NotCalled]

\* the state at the entry of resolve_records, with the second call, if one is
\* made, at its entry too
InitCalls(Inputs, NowSet, Peers) ==
    /\ input_records \in Inputs
    /\ now \in NowSet
    /\ index = 0
    /\ base_name = None
    /\ base_time = None
    /\ base_unit = None
    /\ base_value = None
    /\ base_sum = None
    /\ base_version = None
    /\ resolved = <<>>
    /\ result = Running
    /\ serialised = None
    /\ reparsed = NotParsed
    /\ PATTERN = "Uninit"
    /\ peer \in Peers

InitCall(Inputs, NowSet) == InitCalls(Inputs, NowSet, {NoPeer})

InitWith(Recs, NowSet) == InitCall(SeqsUpTo(Recs, MaxLen), NowSet)

Nows == {DateTime(1700000000, 0), DateTime(1000, 2 * (NANOS_PER_SEC \div FracDen))}

NameX == <<"x">>

\* records that differ in base-name and name
NameRecords ==
    {[EMPTY_RECORD EXCEPT !.base_name = bn, !.name = n] :
        bn \in {None, Some(<<>>), Some(<<"a", "-">>), Some(<<"-">>)},
        n \in {None, Some(<<>>), Some(NameX), Some(<<" ">>)}}

InitName == InitWith(NameRecords, {DateTime(1700000000, 0)})

SpecName == InitName /\ [][Next]_vars

\* records that set at most one base field; with and without an own name
BaseRecords ==
    {[EMPTY_RECORD EXCEPT !.name = Some(NameX)], EMPTY_RECORD}
    \cup {[EMPTY_RECORD EXCEPT !.base_name = Some(b)] : b \in {<<"a", "-">>, <<"b">>}}
    \cup {[EMPTY_RECORD EXCEPT !.base_time = Some(b), !.name = Some(NameX)] :
            b \in {Fin(1234567890, 0), Fin(10, 2)}}
    \cup {[EMPTY_RECORD EXCEPT !.base_unit = Some(b), !.name = Some(NameX)] :
            b \in {"Cel", "F"}}
    \cup {[EMPTY_RECORD EXCEPT !.base_value = Some(b), !.name = Some(NameX)] :
            b \in {Fin(10, 0), Fin(32, 1)}}
    \cup {[EMPTY_RECORD EXCEPT !.base_sum = Some(b), !.name = Some(NameX)] :
            b \in {Fin(20, 0), Fin(-5, -2)}}

InitBase == InitWith(BaseRecords, {DateTime(1700000000, 0)})

SpecBase == InitBase /\ [][Next]_vars

\* records that differ in base-version, with and without an own name
VersionRecords ==
    {[EMPTY_RECORD EXCEPT !.base_version = bver, !.name = n] :
        bver \in {None, Some(0), Some(5), Some(DEFAULT_VERSION), Some(12)},
        n \in {None, Some(NameX)}}

InitVersion == InitWith(VersionRecords, {DateTime(1700000000, 0)})

SpecVersion == InitVersion /\ [][Next]_vars

Named == [EMPTY_RECORD EXCEPT !.name = Some(NameX)]

\* "Ly_Cuw", the bytes 2F 2F C2 BB
TextUrlSafe == <<"L", "y", "_", "C", "u", "w">>

\* the same bytes in the standard alphabet
TextStandard == <<"L", "y", "/", "C", "u", "w">>

\* every combination of own value kinds, and records that set base-value,
\* base-sum or sum
ValueRecords ==
    {[Named EXCEPT !.value = v, !.string_value = vs, !.bool_value = vb, !.data_value = vd] :
        v \in {None, Some(Fin(1, 2))},
        vs \in {None, Some("Hello")},
        vb \in {None, Some(FALSE)},
        vd \in {None, Some(TextStandard)}}
    \cup {[Named EXCEPT !.data_value = Some(TextUrlSafe)],
          [Named EXCEPT !.base_value = Some(Fin(10, 0))],
          [Named EXCEPT !.base_sum = Some(Fin(20, 0))],
          [Named EXCEPT !.sum = Some(Fin(5, 0))],
          [EMPTY_RECORD EXCEPT !.value = Some(Fin(1, 2)), !.bool_value = Some(TRUE)]}

InitValue == InitWith(ValueRecords, {DateTime(1700000000, 0)})

SpecValue == InitValue /\ [][Next]_vars

\* own times and base-times, small and large, finite and not
TimeRecords ==
    {[Named EXCEPT !.time = t] :
        t \in {None, Some(Fin(10, 2)), Some(Fin(-10, -1)), Some(Fin(TIME_THRESHOLD, 0)),
               Some(Fin(TIME_THRESHOLD - 1, 3)), Some(Big(-1, 2)), Some(Big(1, 2)),
               Some(Big(1, 4)), Some(NaN), Some(Inf(-1))}}
    \cup {[Named EXCEPT !.base_time = Some(bt)] :
            bt \in {Fin(1234567890, 0), Big(1, 4), Big(-1, 1)}}
    \cup {[Named EXCEPT !.base_time = Some(Big(1, 4)), !.time = Some(Big(1, 4))]}

InitTime == InitWith(TimeRecords, Nows)

SpecTime == InitTime /\ [][Next]_vars

\* records that are valid and records that break one or several rules
ErrorRecords ==
    {[Named EXCEPT !.value = Some(Fin(1, 0))],
     [EMPTY_RECORD EXCEPT !.base_name = Some(<<"a", "-">>)],
     [EMPTY_RECORD EXCEPT !.value = Some(Fin(1, 0))],
     [EMPTY_RECORD EXCEPT !.name = Some(<<" ">>)],
     [Named EXCEPT !.base_version = Some(12)],
     [EMPTY_RECORD EXCEPT !.base_version = Some(0)],
     [EMPTY_RECORD EXCEPT !.value = Some(Fin(1, 0)), !.string_value = Some("Hello")],
     [Named EXCEPT !.value = Some(Fin(1, 0)), !.string_value = Some("Hello")],
     [Named EXCEPT !.data_value = Some(TextStandard)],
     [Named EXCEPT !.time = Some(NaN)],
     [Named EXCEPT !.data_value = Some(TextStandard), !.time = Some(NaN)]}

InitError == InitWith(ErrorRecords, {DateTime(1700000000, 0)})

SpecError == InitError /\ [][Next]_vars

(***************************************************************************)
(* Properties                                                              *)
(***************************************************************************)
BaseFields == {"base_name", "base_time", "base_unit", "base_value", "base_sum"}

Max(S) == CHOOSE x \in S : \A y \in S : y <= x

Min(S) == CHOOSE x \in S : \A y \in S : x <= y

\* the records among the first i that carry the field
Setters(field, i) == {j \in 1..i : IsSome(input_records[j][field])}

\* the value of a base field in force at record i (1-based): that of the
\* last record up to i that carries it
InForce(field, i) ==
    IF Setters(field, i) = {} THEN None
    ELSE input_records[Max(Setters(field, i))][field]

OrEmpty(o) == IF IsSome(o) THEN Unwrap(o) ELSE <<>>

\* the records resolved so far, or returned
Output == IF result.kind = "Ok" THEN result.records ELSE resolved

\* C1: the resolved name of record i is the base-name in force at i (if any)
\* followed by the own name of record i (if any), with no separator.
C1_NameConcatenation ==
    \A i \in 1..Len(Output) :
        Output[i].name = OrEmpty(InForce("base_name", i)) \o OrEmpty(input_records[i].name)

\* a returned record whose name is an inherited base-name followed by its own name
C1_Witness ==
    /\ result.kind = "Ok"
    /\ \E i \in 2..Len(result.records) :
        /\ IsNone(input_records[i].base_name)
        /\ InForce("base_name", i) = Some(<<"a", "-">>)
        /\ input_records[i].name = Some(NameX)
        /\ result.records[i].name = <<"a", "-", "x">>

OwnKinds(record) ==
    {f \in {"value", "string_value", "bool_value", "data_value"} : IsSome(record[f])}

\* C2: every context slot holds the value of the last record that set it,
\* whatever other fields were set since, and the records without the own
\* field observe it.
C2_BasePersistence ==
    /\ \A f \in BaseFields : Context[f] = InForce(f, index)
    /\ \A i \in 1..Len(Output) :
        LET r == input_records[i]
            o == Output[i]
        IN  /\ IsNone(r.name) => o.name = OrEmpty(InForce("base_name", i))
            /\ IsNone(r.unit) => o.unit = InForce("base_unit", i)
            /\ IsNone(r.sum) => o.sum = InForce("base_sum", i)
            /\ (OwnKinds(r) = {} /\ IsSome(InForce("base_value", i)))
                   => o.value = Some(FloatingPoint(Unwrap(InForce("base_value", i))))
            /\ (IsNone(r.time) /\ IsSome(InForce("base_time", i)))
                   => o.time = convert_senml_time(Unwrap(InForce("base_time", i)), now).dt

\* a base-unit set by record 1 is observed by record 3 after record 2 set another field
C2_Witness ==
    /\ result.kind = "Ok"
    /\ Len(result.records) = 3
    /\ IsSome(input_records[1].base_unit)
    /\ IsSome(input_records[2].base_sum)
    /\ input_records[3] = [EMPTY_RECORD EXCEPT !.name = Some(NameX)]
    /\ result.records[3].unit = input_records[1].base_unit
    /\ result.records[3].sum = input_records[2].base_sum

\* the records that supply a base-version
Suppliers == {i \in 1..Len(input_records) : IsSome(input_records[i].base_version)}

VersionOf(i) == Unwrap(input_records[i].base_version)

\* every record has a name: no error other than a version error can arise
AllNamed == \A i \in 1..Len(input_records) : IsSome(input_records[i].name)

Returned == result.kind # "Running"

VersionError == result.kind = "Err" /\ result.err.tag \in {"DifferentBaseVersion", "InvalidVersionNumber"}

\* C3 as stated: two records supplying the same non-zero base-version never
\* fail on version grounds, two different non-zero ones fail with
\* DifferentBaseVersion, whatever their positions.
C3_AsStated ==
    (Returned /\ AllNamed /\ Cardinality(Suppliers) = 2) =>
        LET a == VersionOf(Min(Suppliers))
            b == VersionOf(Max(Suppliers))
        IN  (a # 0 /\ b # 0) =>
                IF a = b THEN ~VersionError
                ELSE result = ReturnErr(DifferentBaseVersion)

\* C3: two different non-zero base-versions fail with DifferentBaseVersion
\* whatever the positions; two equal ones pass when the first of them is the
\* first record or the number is the default 10, and otherwise fail with
\* DifferentBaseVersion (the default was adopted at the first record).
C3_VersionPinning ==
    (Returned /\ AllNamed /\ Cardinality(Suppliers) = 2) =>
        LET a == VersionOf(Min(Suppliers))
            b == VersionOf(Max(Suppliers))
        IN  (a # 0 /\ b # 0) =>
                IF a = b /\ (Min(Suppliers) = 1 \/ a = DEFAULT_VERSION)
                THEN ~VersionError /\ result.kind = "Ok"
                ELSE result = ReturnErr(DifferentBaseVersion)

\* the same version 5 at records 2 and 3 after a record without version
C3_Witness ==
    /\ Returned
    /\ AllNamed
    /\ Suppliers = {2, 3}
    /\ VersionOf(2) = 5
    /\ VersionOf(3) = 5
    /\ result = ReturnErr(DifferentBaseVersion)
    /\ index = 2

\* record i (1-based) has been taken from the iterator
Examined(i) == index >= i

\* C4 as stated: a record that supplies base-version zero makes resolve fail
\* with InvalidVersionNumber at whatever position.
C4_AsStated ==
    \A i \in 1..Len(input_records) :
        (Examined(i) /\ input_records[i].base_version = Some(0))
            => result = ReturnErr(InvalidVersionNumber)

\* C4: a record that supplies base-version zero is never accepted: resolve
\* fails with InvalidVersionNumber when it is the first record and with
\* DifferentBaseVersion when it comes later.
C4_ZeroVersion ==
    \A i \in 1..Len(input_records) :
        (Examined(i) /\ input_records[i].base_version = Some(0))
            => result = ReturnErr(IF i = 1 THEN InvalidVersionNumber
                                  ELSE DifferentBaseVersion)

\* version zero at the first record
C4_Witness ==
    /\ Len(input_records) >= 2
    /\ input_records[1].base_version = Some(0)
    /\ index = 1
    /\ result = ReturnErr(InvalidVersionNumber)

\* the version the sequence establishes: that of the first record, or the default
Established ==
    IF IsSome(input_records[1].base_version) THEN VersionOf(1) ELSE DEFAULT_VERSION

\* C5: no resolved record carries version 10; the version is absent when the
\* established version is 10 and is the established version otherwise, the
\* same for all records.
C5_EmittedVersion ==
    \A i \in 1..Len(Output) :
        /\ Output[i].base_version # Some(DEFAULT_VERSION)
        /\ Output[i].base_version =
              (IF Established = DEFAULT_VERSION THEN None ELSE Some(Established))
        /\ \A j \in 1..Len(Output) : Output[j].base_version = Output[i].base_version

\* an explicit version 10 that is not emitted
C5_Witness ==
    /\ result.kind = "Ok"
    /\ Len(result.records) >= 2
    /\ input_records[1].base_version = Some(DEFAULT_VERSION)
    /\ input_records[2].base_version = Some(DEFAULT_VERSION)
    /\ result.records[2].base_version = None

\* the context's version before record i: none before the first record, the
\* established version after it
VersionBefore(i) == IF i = 1 THEN None ELSE Some(Established)

\* the version reconciliation of record i passes
VersionOk(i) ==
    ReconcileVersion(input_records[i].base_version, VersionBefore(i)).err = NoError

\* record i has a base-name in force or an own name
NamePresent(i) == IsSome(InForce("base_name", i)) \/ IsSome(input_records[i].name)

\* record i passes the name checks
NameOk(i) ==
    /\ NamePresent(i)
    /\ validate_name(OrEmpty(InForce("base_name", i)) \o OrEmpty(input_records[i].name))

BaseValueOptions == {None, Some(Fin(10, 0)), Some(Big(-1, 3)), Some(NaN)}

\* C6: a record with two or more own value kinds fails in resolve_value with
\* OnlyOneValuePerRecord whatever the base-value and whether or not the binary
\* text decodes, and that is the error of resolve when the record gets there.
C6_ValueExclusivity ==
    \A i \in 1..Len(input_records) :
        Cardinality(OwnKinds(input_records[i])) >= 2 =>
            /\ \A bv \in BaseValueOptions :
                  resolve_value(input_records[i], bv, i - 1)
                      = ValueErr(OnlyOneValuePerRecord(i - 1))
            /\ (Examined(i) /\ VersionOk(i) /\ NameOk(i))
                  => result = ReturnErr(OnlyOneValuePerRecord(i - 1))

\* a boolean next to an undecodable binary value, as second record
C6_Witness ==
    /\ Len(input_records) >= 2
    /\ OwnKinds(input_records[2]) = {"bool_value", "data_value"}
    /\ input_records[2].data_value = Some(TextStandard)
    /\ index = 2
    /\ result = ReturnErr(OnlyOneValuePerRecord(1))

C8_NeverPanics == result.kind # "Panic"

\* the context in which record i is resolved, rebuilt from its predecessors
ContextBefore(i) ==
    [base_name |-> InForce("base_name", i - 1),
     base_time |-> InForce("base_time", i - 1),
     base_unit |-> InForce("base_unit", i - 1),
     base_value |-> InForce("base_value", i - 1),
     base_sum |-> InForce("base_sum", i - 1),
     base_version |-> VersionBefore(i)]

\* what record i comes to in that context
OutcomeOf(i) == MapClosure(ContextBefore(i), input_records[i], i - 1, now)

\* the records that fail
Failing == {i \in 1..Len(input_records) : OutcomeOf(i).kind # "Ok"}

\* C9: the records are taken in input order; the error returned is that of
\* the lowest-index failing record in the context of its predecessors, no
\* record after it is taken, and no resolved record is returned with it.
C9_ErrorsTerminal ==
    /\ result.kind = "Running" => (Len(resolved) = index /\ \A i \in Failing : i > index)
    /\ result.kind = "Ok" => (Failing = {} /\ Len(result.records) = Len(input_records))
    /\ result.kind = "Err" =>
          /\ Failing # {}
          /\ index = Min(Failing)
          /\ result.err = OutcomeOf(Min(Failing)).err
          /\ result.records = <<>>
          /\ resolved = <<>>

\* the second of three records fails, the third would fail otherwise
C9_Witness ==
    /\ Len(input_records) = 3
    /\ Failing = {2, 3}
    /\ OutcomeOf(2).err # OutcomeOf(3).err
    /\ index = 2
    /\ result = ReturnErr(OutcomeOf(2).err)

\* C10: a record taken with neither a base-name in context nor an own name
\* makes resolve fail with MissingName(i), i its 0-based index (its version
\* reconciliation, which comes first, having passed).
C10_MissingName ==
    \A i \in 1..Len(input_records) :
        (Examined(i) /\ VersionOk(i) /\ ~NamePresent(i))
            => result = ReturnErr(MissingName(i - 1))

\* a named record, then one without name
C10_Witness ==
    /\ Len(input_records) >= 2
    /\ IsSome(input_records[1].name)
    /\ ~NamePresent(2)
    /\ index = 2
    /\ result = ReturnErr(MissingName(1))

\* the concatenated name of record i
NameOf(i) == OrEmpty(InForce("base_name", i)) \o OrEmpty(input_records[i].name)

\* the name grammar: a first character that is an ASCII letter or digit, then
\* ASCII letters, digits and the five punctuation characters
Punctuation == {"-", ":", ".", "/", "_"}

WellFormed(name) ==
    /\ Len(name) > 0
    /\ name[1] \in Upper \cup Lower \cup Digit
    /\ \A k \in 1..Len(name) : name[k] \in Upper \cup Lower \cup Digit \cup Punctuation

\* C11: every name of a successful output is non-empty and well formed, and a
\* record whose concatenated name (a base-name in force or an own name being
\* present, possibly empty) is not well formed fails the call with
\* InvalidNameInRecord at its 0-based index, never with MissingName.
C11_NameValidity ==
    /\ \A i \in 1..Len(Output) : WellFormed(Output[i].name)
    /\ \A i \in 1..Len(input_records) :
        (Examined(i) /\ VersionOk(i) /\ NamePresent(i) /\ ~WellFormed(NameOf(i)))
            => /\ result = ReturnErr(InvalidNameInRecord(i - 1))
               /\ result # ReturnErr(MissingName(i - 1))

\* a present but empty base-name and an empty own name give the empty name,
\* which is reported as invalid at the record's index
C11_Witness ==
    /\ Len(input_records) >= 2
    /\ input_records[2].base_name = Some(<<>>)
    /\ input_records[2].name = Some(<<>>)
    /\ NameOf(2) = <<>>
    /\ result = ReturnErr(InvalidNameInRecord(1))

OrZero(o) == IF IsSome(o) THEN Unwrap(o) ELSE Zero

\* the computed time of record i: base-time in force plus own time
TimeOf(i) == FAdd(OrZero(InForce("base_time", i)), OrZero(input_records[i].time))

\* record i passes the value checks
ValuePasses(i) == resolve_value(input_records[i], InForce("base_value", i), i - 1).ok

\* record i is the record the call failed or panicked at
FailedAt(i) == result.kind \in {"Err", "Panic"} /\ index = i

\* the instant s seconds after the instant origin (s finite and in range)
Plus(origin, s) ==
    LET nanos == origin.nanos + s.f * (NANOS_PER_SEC \div FracDen)
    IN  DateTime(origin.secs + s.s + (nanos \div NANOS_PER_SEC), nanos % NANOS_PER_SEC)

Epoch == DateTime(0, 0)

\* C12 as stated: a finite computed time s at or above 2^28 resolves to the
\* epoch plus s whatever the reference time, and a finite s below 2^28,
\* negative ones included, resolves to the reference time plus s.
C12_TimeThreshold ==
    \A i \in 1..Len(input_records) :
        (Examined(i) /\ VersionOk(i) /\ NameOk(i) /\ ValuePasses(i) /\ is_finite(TimeOf(i)))
            => /\ ~FailedAt(i)
               /\ (result.kind \in {"Running", "Ok"} /\ TimeOf(i).k = "fin")
                    => Output[i].time =
                         IF TimeOf(i).s >= TIME_THRESHOLD
                         THEN Plus(Epoch, TimeOf(i))
                         ELSE Plus(now, TimeOf(i))

\* the same for the computed times chrono can represent
C12_InRange ==
    \A i \in 1..Len(input_records) :
        (Examined(i) /\ VersionOk(i) /\ NameOk(i) /\ ValuePasses(i) /\ TimeOf(i).k = "fin")
            => /\ ~FailedAt(i)
               /\ result.kind \in {"Running", "Ok"}
                    => Output[i].time =
                         IF TimeOf(i).s >= TIME_THRESHOLD
                         THEN Plus(Epoch, TimeOf(i))
                         ELSE Plus(now, TimeOf(i))

\* C13: a successful call returns exactly as many resolved records as it was
\* given, the i-th of them being input record i resolved in the context its
\* predecessors leave; the empty input gives the empty output.
C13_OrderAndCardinality ==
    /\ result.kind = "Ok" =>
          /\ Len(result.records) = Len(input_records)
          /\ \A i \in 1..Len(input_records) :
                /\ OutcomeOf(i).kind = "Ok"
                /\ result.records[i] = OutcomeOf(i).record
    /\ (input_records = <<>> /\ result.kind # "Running") => result = ReturnOk(<<>>)

\* three records that resolve to three different records, returned in input order
C13_Witness ==
    /\ result.kind = "Ok"
    /\ Len(input_records) = 3
    /\ Len(result.records) = 3
    /\ result.records[1] # result.records[2]
    /\ result.records[2] # result.records[3]
    /\ result.records[1] # result.records[3]
    /\ \A i \in 1..3 : result.records[i] = OutcomeOf(i).record

\* numeric values, sums and units, own and base, alone and together
MeasureRecords ==
    {Named,
     [Named EXCEPT !.base_value = Some(Fin(10, 0))],
     [Named EXCEPT !.base_value = Some(Fin(32, 1)), !.value = Some(Fin(42, FracDen - 1))],
     [Named EXCEPT !.base_value = Some(Big(1, 4)), !.value = Some(Big(1, 4))],
     [Named EXCEPT !.value = Some(Fin(1, 2))],
     [Named EXCEPT !.value = Some(Fin(-3, -3))],
     [Named EXCEPT !.base_sum = Some(Fin(20, 0))],
     [Named EXCEPT !.base_sum = Some(Fin(5, 2)), !.sum = Some(Fin(1, FracDen - 2))],
     [Named EXCEPT !.sum = Some(Fin(5, 0))],
     [Named EXCEPT !.value = Some(Fin(1, 2)), !.sum = Some(Fin(2, 0))],
     [Named EXCEPT !.base_unit = Some("Cel")],
     [Named EXCEPT !.base_unit = Some("F"), !.unit = Some("K")],
     [Named EXCEPT !.unit = Some("m")],
     [Named EXCEPT !.string_value = Some("Hello")]}

InitMeasure == InitWith(MeasureRecords, {DateTime(1700000000, 0)})

SpecMeasure == InitMeasure /\ [][Next]_vars

\* C14: a resolved record whose only own value is the numeric one carries a
\* float value equal to the base value in force (that of the same record
\* included, zero when none is set) plus the own value.
C14_BaseValueOffset ==
    \A i \in 1..Len(Output) :
        OwnKinds(input_records[i]) = {"value"}
            => Output[i].value =
                 Some(FloatingPoint(FAdd(OrZero(InForce("base_value", i)),
                                         Unwrap(input_records[i].value))))

\* a base value set by the record itself is added to its own value, with a
\* carry out of the fractions, and 10 set by an earlier record is added to a
\* later own value
C14_Witness ==
    /\ result.kind = "Ok"
    /\ Len(input_records) = 3
    /\ input_records[1].base_value = Some(Fin(10, 0))
    /\ input_records[2].value = Some(Fin(1, 2))
    /\ result.records[2].value = Some(FloatingPoint(Fin(11, 2)))
    /\ input_records[3].base_value = Some(Fin(32, 1))
    /\ input_records[3].value = Some(Fin(42, FracDen - 1))
    /\ result.records[3].value = Some(FloatingPoint(Fin(75, 0)))

\* C15: the resolved sum is the base sum in force plus the own sum when both
\* are present, the one present when only one is, and absent when neither is.
C15_SumResolution ==
    \A i \in 1..Len(Output) :
        LET own == input_records[i].sum
            base == InForce("base_sum", i)
        IN  Output[i].sum =
                IF IsSome(own) /\ IsSome(base) THEN Some(FAdd(Unwrap(base), Unwrap(own)))
                ELSE IF IsSome(own) THEN own
                ELSE IF IsSome(base) THEN base
                ELSE None

\* own sum only, then a base sum set by the record itself and added to its
\* own sum, then the base sum only
C15_Witness ==
    /\ result.kind = "Ok"
    /\ Len(input_records) = 3
    /\ input_records[1].sum = Some(Fin(5, 0))
    /\ InForce("base_sum", 1) = None
    /\ result.records[1].sum = Some(Fin(5, 0))
    /\ input_records[2].base_sum = Some(Fin(5, 2))
    /\ input_records[2].sum = Some(Fin(1, FracDen - 2))
    /\ result.records[2].sum = Some(Fin(7, 0))
    /\ input_records[3].sum = None
    /\ result.records[3].sum = Some(Fin(5, 2))

\* C16: the resolved unit is the own unit when present, else the base unit in
\* force, else absent; and the base unit of the context is the one last set as
\* a base unit, whatever own units the records carried.
C16_UnitResolution ==
    /\ \A i \in 1..Len(Output) :
          Output[i].unit =
              IF IsSome(input_records[i].unit) THEN input_records[i].unit
              ELSE InForce("base_unit", i)
    /\ base_unit = InForce("base_unit", index)
    /\ \A i \in 1..Len(Output) :
          (IsNone(input_records[i].unit) /\ Setters("base_unit", i) = {})
              => Output[i].unit = None

\* base unit F with own unit K, then a record without unit: it gets F, not K
C16_Witness ==
    /\ result.kind = "Ok"
    /\ Len(input_records) = 3
    /\ input_records[1].base_unit = Some("F")
    /\ input_records[1].unit = Some("K")
    /\ result.records[1].unit = Some("K")
    /\ input_records[2].unit = Some("m")
    /\ result.records[2].unit = Some("m")
    /\ input_records[3] = Named
    /\ result.records[3].unit = Some("F")

\* C18: a record that passes the version, name and value checks and whose
\* computed time is NaN or an infinity, as the sum of two finite times can be,
\* fails the call with InvalidTimeInRecord at its 0-based index.
C18_NonFiniteTime ==
    \A i \in 1..Len(input_records) :
        (Examined(i) /\ VersionOk(i) /\ NameOk(i) /\ ValuePasses(i) /\ ~is_finite(TimeOf(i)))
            => result = ReturnErr(InvalidTimeInRecord(i - 1))

\* base-time f64::MAX and own time f64::MAX: both finite, their sum is not
C18_Witness ==
    /\ Len(input_records) >= 2
    /\ input_records[1] = Named
    /\ input_records[2].base_time = Some(Big(1, 4))
    /\ input_records[2].time = Some(Big(1, 4))
    /\ TimeOf(2) = Inf(1)
    /\ result = ReturnErr(InvalidTimeInRecord(1))

MaxNameLen == 3

\* characters of every kind the pattern tells apart: letters of both cases, a
\* digit, the five punctuation characters, a space, a line feed, an ASCII
\* character outside the classes, and a letter outside ASCII
NameChars == {"a", "Z", "7", "-", ":", ".", "/", "_", " ", "\n", "@", "é"}

\* one record, whose own name is any string of up to MaxNameLen characters
GrammarInputs ==
    {<<[EMPTY_RECORD EXCEPT !.name = Some(s)]>> : s \in SeqsUpTo(NameChars, MaxNameLen)}

InitGrammar == InitCall(GrammarInputs, {DateTime(1700000000, 0)})

SpecGrammar == InitGrammar /\ [][Next]_vars

\* C20: a name is accepted exactly when it is non-empty, starts with an ASCII
\* letter or digit and holds only ASCII letters, digits and - : . / _ ; a
\* record whose name is present is refused with InvalidNameInRecord exactly
\* when its name is not of that form.
C20_NameGrammar ==
    \A i \in 1..Len(input_records) :
        (Examined(i) /\ VersionOk(i) /\ NamePresent(i))
            => /\ (result = ReturnErr(InvalidNameInRecord(i - 1))) <=> ~WellFormed(NameOf(i))
               /\ WellFormed(NameOf(i)) => (~FailedAt(i) /\ Output[i].name = NameOf(i))

\* a name that is well formed but for a line feed at its end is refused
C20_Witness ==
    /\ Len(input_records) = 1
    /\ input_records[1].name = Some(<<"a", "\n">>)
    /\ result = ReturnErr(InvalidNameInRecord(0))

\* values of every kind, numeric ones whole and fractional, small and large
SerialRecords ==
    {[Named EXCEPT !.value = Some(v)] :
        v \in {Fin(42, 0), Fin(-7, 0), Fin(1, 2), Big(1, 2), Big(-1, 3), Big(1, 4)}}
    \cup {[Named EXCEPT !.base_value = Some(Big(1, 4)), !.value = Some(Big(1, 4))],
          [Named EXCEPT !.string_value = Some("Hello"), !.base_version = Some(5)],
          [Named EXCEPT !.bool_value = Some(TRUE)],
          [Named EXCEPT !.data_value = Some(TextUrlSafe)],
          [Named EXCEPT !.sum = Some(Fin(5, 2)), !.unit = Some("m")],
          [Named EXCEPT !.time = Some(Fin(10, 2)), !.update_time = Some(Fin(30, 0))],
          [Named EXCEPT !.time = Some(Fin(-1600000000, 0))]}

InitSerial == InitWith(SerialRecords, Nows)

SpecSerial == InitSerial /\ [][NextSerial]_vars

\* a float without fractional part
Whole(x) == is_finite(x) /\ ~HasFract(x)

\* C17: every resolved record whose value is a float with zero fractional
\* part, whatever its magnitude and sign, is written with an integer literal
\* that reads back as the same number.
C17_IntegerRoundTrip ==
    IsSome(serialised) =>
        \A i \in 1..Len(result.records) :
            LET value == result.records[i].value
                wire == Unwrap(serialised)[i].value
            IN  (IsSome(value) /\ Unwrap(value).kind = "FloatingPoint"
                 /\ Whole(Unwrap(value).float))
                    => /\ IsSome(wire)
                       /\ Unwrap(wire).key = "v"
                       /\ Unwrap(wire).lit.form = "int"
                       /\ deserialize_f64(Unwrap(wire).lit) = Some(Unwrap(value).float)

\* the same for the whole numbers that i64 holds
C17_WithinI64 ==
    IsSome(serialised) =>
        \A i \in 1..Len(result.records) :
            LET value == result.records[i].value
                wire == Unwrap(serialised)[i].value
            IN  (IsSome(value) /\ Unwrap(value).kind = "FloatingPoint"
                 /\ Whole(Unwrap(value).float)
                 /\ (Unwrap(value).float.k = "big" => Unwrap(value).float.f <= 2))
                    => /\ IsSome(wire)
                       /\ Unwrap(wire).key = "v"
                       /\ Unwrap(wire).lit.form = "int"
                       /\ deserialize_f64(Unwrap(wire).lit) = Some(Unwrap(value).float)

\* a record that sets a base-name, a record without any name, a named record
ConcurrentRecords ==
    {[EMPTY_RECORD EXCEPT !.base_name = Some(<<"a", "-">>)], EMPTY_RECORD, Named}

InitConcurrent ==
    InitCalls(SeqsUpTo(ConcurrentRecords, MaxLen), {DateTime(1700000000, 0)},
              {Call(records, DateTime(1000, 0)) :
                   records \in SeqsUpTo(ConcurrentRecords, MaxLen)})

SpecConcurrent == InitConcurrent /\ [][NextConcurrent]_vars

\* C19: whatever the interleaving of two calls running on two threads, each
\* returns what it returns when run alone from an all-unset context on its
\* own input sequence and reference time.
C19_CallsAreIndependent ==
    /\ result.kind # "Running"
          => result = Alone(input_records, now, 1, EmptyContext, <<>>)
    /\ peer.result.kind # "Running"
          => peer.result = Alone(peer.input_records, peer.now, 1, EmptyContext, <<>>)

\* one call has set a base-name and returned two records under it; the other
\* call, given a nameless record in second place, has failed on it for want
\* of a name
C19_Witness ==
    /\ input_records = <<[EMPTY_RECORD EXCEPT !.base_name = Some(<<"a", "-">>)], EMPTY_RECORD>>
    /\ result.kind = "Ok"
    /\ result.records[2].name = <<"a", "-">>
    /\ peer.input_records = <<Named, EMPTY_RECORD>>
    /\ peer.result = ReturnErr(MissingName(1))
    /\ PATTERN = "Compiled"

MaxTextLen == 4

\* symbols of the URL-safe alphabet (values 0, 16, 48, 62, 63), the two
\* symbols only the standard alphabet has, and the padding character
TextChars == {"A", "Q", "w", "-", "_", "+", "/", "="}

TextPadded == <<"L", "y", "_", "C", "u", "w", "=", "=">>

\* one record, whose binary value is any text of up to MaxTextLen characters,
\* or one of three longer texts
BinaryInputs ==
    {<<[Named EXCEPT !.data_value = Some(text)]>> :
        text \in SeqsUpTo(TextChars, MaxTextLen) \cup {TextUrlSafe, TextStandard, TextPadded}}

InitBinary == InitCall(BinaryInputs, {DateTime(1700000000, 0)})

SpecBinary == InitBinary /\ [][NextSerial]_vars

\* the characters of the URL-safe alphabet
UrlSafeChars == Upper \cup Lower \cup Digit \cup {"-", "_"}

\* C21: a resolved binary value is written as text over the URL-safe alphabet
\* without padding, that text decodes to the same bytes, and parsing the text
\* written gives the same bytes again; a binary text holding +, / or = is
\* refused with the invalid-base64 error.
C21_BinaryRoundTrip ==
    /\ IsSome(serialised) =>
          \A i \in 1..Len(result.records) :
              LET value == Unwrap(result.records[i].value)
                  wire == Unwrap(Unwrap(serialised)[i].value)
              IN  value.kind = "DataValue"
                    => /\ wire.key = "vd"
                       /\ \A k \in 1..Len(wire.text) : wire.text[k] \in UrlSafeChars
                       /\ base64_decode(wire.text) = DecodeOk(value.data)
    /\ reparsed # NotParsed =>
          /\ reparsed.result.kind = "Ok"
          /\ \A i \in 1..Len(result.records) :
                Unwrap(result.records[i].value).kind = "DataValue"
                    => reparsed.result.records[i].value = result.records[i].value
    /\ \A i \in 1..Len(input_records) :
          (/\ Examined(i) /\ VersionOk(i) /\ NameOk(i)
           /\ OwnKinds(input_records[i]) = {"data_value"}
           /\ \E k \in 1..Len(Unwrap(input_records[i].data_value)) :
                 Unwrap(input_records[i].data_value)[k] \in {"+", "/", "="})
              => /\ FailedAt(i)
                 /\ result.kind = "Err"
                 /\ result.err.tag = "InvalidBase64Value"

\* the bytes 2F 2F C2 BB are written as Ly_Cuw and read back
C21_Witness ==
    /\ result.kind = "Ok"
    /\ result.records[1].value = Some(DataValue(<<47, 47, 194, 187>>))
    /\ IsSome(serialised)
    /\ Unwrap(Unwrap(serialised)[1].value).text = TextUrlSafe
    /\ reparsed.result.kind = "Ok"
    /\ reparsed.result.records[1].value = Some(DataValue(<<47, 47, 194, 187>>))

\* records without bag of unrecognized fields, with an empty one, and with
\* bags of one and two members
ExtraRecords ==
    {[Named EXCEPT !.extra_fields = bag] :
        bag \in {None, Some({}), Some({<<"extra_field", "extra_value">>}),
                 Some({<<"extra_field", "other">>, <<"room", "12">>})}}
    \cup {[EMPTY_RECORD EXCEPT !.base_name = Some(<<"a", "-">>),
                               !.extra_fields = Some({<<"room", "12">>})]}

InitExtra == InitWith(ExtraRecords, {DateTime(1700000000, 0)})

SpecExtra == InitExtra /\ [][Next]_vars

\* C22: the bag of a resolved record is the own bag of its input record when
\* that bag has members, and absent when the input record has no bag or an
\* empty one, whatever the bags of the records before it.
C22_ExtraFields ==
    \A i \in 1..Len(Output) :
        LET own == input_records[i].extra_fields
        IN  Output[i].extra_fields =
                IF IsSome(own) /\ Unwrap(own) # {} THEN own ELSE None

\* a bag of two members, then an empty bag, then no bag: the first is kept
\* verbatim and the two others resolve to no bag
C22_Witness ==
    /\ result.kind = "Ok"
    /\ Len(input_records) = 3
    /\ input_records[1].extra_fields = Some({<<"extra_field", "other">>, <<"room", "12">>})
    /\ result.records[1].extra_fields = Some({<<"extra_field", "other">>, <<"room", "12">>})
    /\ input_records[2].extra_fields = Some({})
    /\ result.records[2].extra_fields = None
    /\ input_records[3].extra_fields = None
    /\ result.records[3].extra_fields = None

PerRecordErrors ==
    {"MissingName", "InvalidNameInRecord", "InvalidTimeInRecord",
     "OnlyOneValuePerRecord", "InvalidBase64Value"}

\* C23: an error of one of the five per-record kinds carries the 0-based
\* index of the record the call failed at, and the invalid-base64 error is
\* none of the four others.
C23_ErrorIndex ==
    (result.kind = "Err" /\ result.err.tag \in PerRecordErrors)
        => /\ result.err.index = index - 1
           /\ \A i \in 0..MaxLen :
                InvalidBase64Value(result.err.detail)
                    \notin {MissingName(i), InvalidNameInRecord(i),
                            InvalidTimeInRecord(i), OnlyOneValuePerRecord(i)}

\* the same for the four kinds whose variant holds a usize
C23_IndexedKinds ==
    (result.kind = "Err" /\ result.err.tag \in PerRecordErrors \ {"InvalidBase64Value"})
        => result.err.index = index - 1

\* records that break any subset of the rules: the version (zero, or other
\* than the one in force), the name (missing, ill-formed), the value (two
\* kinds, an undecodable binary text, both), the time (not finite)
OrderRecords ==
    {[EMPTY_RECORD EXCEPT !.base_version = bver, !.name = n, !.value = v,
                          !.string_value = vs, !.data_value = vd, !.time = t] :
        bver \in {None, Some(0), Some(12)},
        n \in {None, Some(<<" ">>), Some(NameX)},
        v \in {None, Some(Fin(1, 0))},
        vs \in {None, Some("Hello")},
        vd \in {None, Some(TextStandard)},
        t \in {None, Some(NaN)}}

\* such a record alone, or after a valid record
OrderInputs == {<<r>> : r \in OrderRecords} \cup {<<Named, r>> : r \in OrderRecords}

InitOrder == InitCall(OrderInputs, {DateTime(1700000000, 0)})

SpecOrder == InitOrder /\ [][Next]_vars

\* the rules record i breaks, each stated on the input
BreaksVersion(i) ==
    IF i = 1 THEN input_records[1].base_version = Some(0)
    ELSE /\ IsSome(input_records[i].base_version)
         /\ input_records[i].base_version # VersionBefore(i)

BreaksGrammar(i) == NamePresent(i) /\ ~WellFormed(NameOf(i))

BreaksExclusivity(i) == Cardinality(OwnKinds(input_records[i])) >= 2

BreaksEncoding(i) ==
    /\ IsSome(input_records[i].data_value)
    /\ ~base64_decode(Unwrap(input_records[i].data_value)).ok

BreaksTime(i) == ~is_finite(TimeOf(i))

\* C24: the error of a record that breaks several rules is that of the first
\* rule broken in the order version, name presence, name grammar, one value
\* kind, binary decoding, time.
C24_CheckOrder ==
    \A i \in 1..Len(input_records) :
        Examined(i) =>
            IF BreaksVersion(i)
            THEN FailedAt(i) /\ result.kind = "Err"
                 /\ result.err \in {DifferentBaseVersion, InvalidVersionNumber}
            ELSE IF ~NamePresent(i) THEN result = ReturnErr(MissingName(i - 1))
            ELSE IF BreaksGrammar(i) THEN result = ReturnErr(InvalidNameInRecord(i - 1))
            ELSE IF BreaksExclusivity(i) THEN result = ReturnErr(OnlyOneValuePerRecord(i - 1))
            ELSE IF BreaksEncoding(i)
            THEN FailedAt(i) /\ result.kind = "Err" /\ result.err.tag = "InvalidBase64Value"
            ELSE IF BreaksTime(i) THEN result = ReturnErr(InvalidTimeInRecord(i - 1))
            ELSE ~FailedAt(i)

\* a record with an ill-formed name, two value kinds one of which is an
\* undecodable binary text, and a NaN time: the name is what is reported
C24_Witness ==
    /\ Len(input_records) = 2
    /\ ~BreaksVersion(2)
    /\ BreaksGrammar(2)
    /\ BreaksExclusivity(2)
    /\ BreaksEncoding(2)
    /\ BreaksTime(2)
    /\ result = ReturnErr(InvalidNameInRecord(1))

\* C25: when the first record supplies no base-version the context holds
\* version 10 from that record on; a later record that supplies 10 is not
\* refused on version grounds, and a later record that supplies another
\* number fails the call with DifferentBaseVersion.
C25_DefaultVersionAdoption ==
    (index >= 1 /\ IsNone(input_records[1].base_version)) =>
        /\ result.kind \in {"Running", "Ok"} => base_version = Some(DEFAULT_VERSION)
        /\ \A i \in 2..Len(input_records) :
              (Examined(i) /\ IsSome(input_records[i].base_version)) =>
                  IF input_records[i].base_version = Some(DEFAULT_VERSION)
                  THEN ~(FailedAt(i) /\ VersionError)
                  ELSE FailedAt(i) /\ result = ReturnErr(DifferentBaseVersion)

\* no version, then 10, then 5: the second record is taken, the call fails at
\* the third
C25_Witness ==
    /\ Len(input_records) = 3
    /\ input_records[1] = Named
    /\ input_records[2] = [Named EXCEPT !.base_version = Some(DEFAULT_VERSION)]
    /\ input_records[3] = [Named EXCEPT !.base_version = Some(5)]
    /\ index = 3
    /\ result = ReturnErr(DifferentBaseVersion)

\* base-times and own times on both sides of 2^28 whose sums fall on the
\* other side: two below it with a sum above, one above it and a negative
\* own time with a sum below
SumRecords ==
    {Named}
    \cup {[Named EXCEPT !.time = Some(t)] :
            t \in {Fin(20, 0), Fin(10, 2), Fin(-1234567880, 0)}}
    \cup {[Named EXCEPT !.base_time = Some(bt)] :
            bt \in {Fin(TIME_THRESHOLD - 10, 0), Fin(1234567890, 0)}}
    \cup {[Named EXCEPT !.base_time = Some(Fin(5, 0)), !.time = Some(Fin(10, 2))]}

InitSum == InitWith(SumRecords, Nows)

SpecSum == InitSum /\ [][Next]_vars

\* C26: the time of a resolved record is the conversion of the one number
\* base-time in force (or 0) plus own time (or 0): absolute when that sum is
\* at or above 2^28, relative to the reference time when it is below, and the
\* reference time itself when the record has neither.
C26_TimeOfSum ==
    \A i \in 1..Len(Output) :
        /\ TimeOf(i).k = "fin"
        /\ Output[i].time =
             IF TimeOf(i).s >= TIME_THRESHOLD THEN Plus(Epoch, TimeOf(i))
             ELSE Plus(now, TimeOf(i))
        /\ (IsNone(InForce("base_time", i)) /\ IsNone(input_records[i].time))
              => Output[i].time = now

\* base-time 2^28 - 10 and own time 20, both relative taken apart, give the
\* absolute time 2^28 + 10; base-time 1234567890 without own time gives that
\* absolute time
C26_Witness ==
    /\ result.kind = "Ok"
    /\ Len(input_records) = 3
    /\ input_records[1].base_time = Some(Fin(TIME_THRESHOLD - 10, 0))
    /\ input_records[2].time = Some(Fin(20, 0))
    /\ result.records[2].time = DateTime(TIME_THRESHOLD + 10, 0)
    /\ input_records[3].base_time = Some(Fin(1234567890, 0))
    /\ input_records[3].time = None
    /\ result.records[3].time = DateTime(1234567890, 0)

\* C27: a resolved record whose one own value is a string, a boolean or a
\* binary text carries that value whatever base value is in force; a resolved
\* record without own value carries the base value in force as a float when
\* one is set, and when none is set the value resolver gives no value (which
\* the sum then decides: zero is put in when the record has no sum either).
C27_BaseValueApplicability ==
    \A i \in 1..Len(Output) :
        LET record == input_records[i]
            kinds == OwnKinds(record)
            base == InForce("base_value", i)
            got == resolve_value(record, base, i - 1)
        IN  /\ kinds = {"string_value"}
                => /\ got = ValueOk(Some(StringValue(Unwrap(record.string_value))))
                   /\ Output[i].value = Some(StringValue(Unwrap(record.string_value)))
            /\ kinds = {"bool_value"}
                => /\ got = ValueOk(Some(BooleanValue(Unwrap(record.bool_value))))
                   /\ Output[i].value = Some(BooleanValue(Unwrap(record.bool_value)))
            /\ kinds = {"data_value"}
                => /\ got.ok
                   /\ Output[i].value = got.value
                   /\ Unwrap(got.value).kind = "DataValue"
                   /\ base64_encode(Unwrap(got.value).data) = Unwrap(record.data_value)
            /\ (kinds = {} /\ IsSome(base))
                => /\ got = ValueOk(Some(FloatingPoint(Unwrap(base))))
                   /\ Output[i].value = Some(FloatingPoint(Unwrap(base)))
            /\ (kinds = {} /\ IsNone(base))
                => /\ got = ValueOk(None)
                   /\ Output[i].value =
                        IF IsNone(Output[i].sum) THEN Some(FloatingPoint(Zero)) ELSE None

\* base value 10 is in force: a string stays the string, and a record without
\* own value carries 10
C27_Witness ==
    /\ result.kind = "Ok"
    /\ Len(input_records) = 3
    /\ input_records[1].base_value = Some(Fin(10, 0))
    /\ input_records[2].string_value = Some("Hello")
    /\ result.records[2].value = Some(StringValue("Hello"))
    /\ input_records[3] = Named
    /\ result.records[3].value = Some(FloatingPoint(Fin(10, 0)))

\* what the first and the second resolution agree on for record i
SameRecord(first, second) ==
    /\ second.name = first.name
    /\ second.unit = first.unit
    /\ second.value = first.value
    /\ second.sum = first.sum
    /\ second.base_version = first.base_version
    /\ second.time = first.time

\* C28: the text written from a successful resolution resolves again, under
\* whatever reference time, to records of the same name, unit, value, sum,
\* version and absolute time.
C28_SelfContained ==
    reparsed # NotParsed =>
        /\ reparsed.result.kind = "Ok"
        /\ Len(reparsed.result.records) = Len(result.records)
        /\ \A i \in 1..Len(result.records) :
              SameRecord(result.records[i], reparsed.result.records[i])

\* a float the text carries as it is: finite, and within i64 when whole
Carried(x) == x.k = "fin" \/ (x.k = "big" /\ x.f <= 2)

\* the same for the sequences whose times are all at or after 2^28 seconds
\* past the epoch and whose floats the text carries as they are
C28_AbsoluteTimes ==
    (/\ reparsed # NotParsed
     /\ \A i \in 1..Len(result.records) :
           LET r == result.records[i]
           IN  /\ r.time.secs >= TIME_THRESHOLD
               /\ (IsSome(r.value) /\ Unwrap(r.value).kind = "FloatingPoint")
                     => Carried(Unwrap(r.value).float)
               /\ IsSome(r.sum) => Carried(Unwrap(r.sum)))
        => /\ reparsed.result.kind = "Ok"
           /\ Len(reparsed.result.records) = Len(result.records)
           /\ \A i \in 1..Len(result.records) :
                 SameRecord(result.records[i], reparsed.result.records[i])


(***************************************************************************)
(* C29: the prefix property                                                *)
(***************************************************************************)

Prefix(seq, k) == SubSeq(seq, 1, k)

\* the input with one more record after it
Extensions == {Append(input_records, r) : r \in ErrorRecords}

\* C29: when the call succeeds, the call on every prefix of its input
\* succeeds with the corresponding prefix of its output; when the call fails
\* with an error, every prefix of the input that fails by itself fails with
\* that error, and so does the input with one more record after it.
C29_PrefixProperty ==
    /\ result.kind = "Ok" =>
          \A k \in 0..Len(input_records) :
              resolve_records(Prefix(input_records, k), now)
                  = ReturnOk(Prefix(result.records, k))
    /\ result.kind = "Err" =>
          /\ \A k \in 0..Len(input_records) :
                resolve_records(Prefix(input_records, k), now).kind = "Err"
                    => resolve_records(Prefix(input_records, k), now) = result
          /\ \A longer \in Extensions : resolve_records(longer, now) = result

\* a call fails at its second record of three: the first two records alone
\* fail with the same error, the first alone succeeds
C29_Witness ==
    /\ Len(input_records) = MaxLen
    /\ result = ReturnErr(InvalidNameInRecord(1))
    /\ resolve_records(Prefix(input_records, 2), now) = result
    /\ resolve_records(Prefix(input_records, 1), now).kind = "Ok"
    /\ input_records[MaxLen].base_name = Some(<<"a", "-">>)


(***************************************************************************)
(* C30: where the invalid-time error comes from                            *)
(***************************************************************************)

\* C30 as stated: a record that passes the version, name and value checks
\* and whose computed time is finite, of whatever magnitude, is given a
\* time: the call neither returns InvalidTimeInRecord for it nor panics
\* in the conversion.
C30_OnlyNonFiniteRejected ==
    \A i \in 1..Len(input_records) :
        (Examined(i) /\ VersionOk(i) /\ NameOk(i) /\ ValuePasses(i) /\ is_finite(TimeOf(i)))
            => /\ result # ReturnErr(InvalidTimeInRecord(i - 1))
               /\ ~(result.kind = "Panic" /\ index = i)

\* the same for the finite computed times chrono can represent: none of them
\* is rejected
C30_InRangeAccepted ==
    \A i \in 1..Len(input_records) :
        (Examined(i) /\ VersionOk(i) /\ NameOk(i) /\ ValuePasses(i) /\ TimeOf(i).k = "fin")
            => /\ result # ReturnErr(InvalidTimeInRecord(i - 1))
               /\ ~(result.kind = "Panic" /\ index = i)
               /\ convert_senml_time(TimeOf(i), now).kind = "Some"

====
